---- MODULE Spec2Model ----
(***************************************************************************)
(* Bayesian linear regression with mean-field variational inference        *)
(* (examples/bayesian_linear_regression.py).                               *)
(*                                                                         *)
(* Numbers.  Data, weights and variational parameters are integers (a      *)
(* subset of the floats on which +, - and * are exact).  The two           *)
(* hyperparameters lik_variance and prior_variance are fractions (0.01 by  *)
(* default); they are held in hundredths, and so are the log densities     *)
(* that log_prob returns.                                                  *)
(*                                                                         *)
(* Tensors.  A tensor is a record [shape, data]: shape is the sequence of  *)
(* dimension sizes, data the elements in row-major order.  A scalar has    *)
(* shape << >> and one element.  An operation that TensorFlow rejects      *)
(* yields InvalidArgument.                                                 *)
(***************************************************************************)
EXTENDS Integers, Sequences, FiniteSets

VARIABLES
    pc,             \* position of the program
    weight_dim,     \* LinearModel.weight_dim
    lik_variance,   \* LinearModel.lik_variance   (hundredths)
    prior_variance, \* LinearModel.prior_variance (hundredths)
    num_vars,       \* LinearModel.num_vars
    var_m,          \* variational.m : mean vector
    var_s,          \* variational.s : standard-deviation vector
    data,           \* data : tensor n_data x (D+1), column 0 the outputs
    n_iter,         \* inference.run(n_iter=...)
    n_print,        \* inference.run(n_print=...)
    n_minibatch,    \* number of weight samples per iteration
    t,              \* iteration counter
    rng,            \* global generator: its seed and the number of draws taken
    losses,         \* loss estimates of the last iteration
    stdout,         \* progress lines printed so far
    plot,           \* what the figure currently shows
    args,           \* arguments of a direct call of mapping / log_prob
    ret             \* value returned by that call

vars == << pc, weight_dim, lik_variance, prior_variance, num_vars, var_m,
           var_s, data, n_iter, n_print, n_minibatch, t, rng, losses,
           stdout, plot, args, ret >>

model_vars == << weight_dim, lik_variance, prior_variance, num_vars >>
run_vars == << n_iter, n_print, n_minibatch >>

----------------------------------------------------------------------------
(* Bounds *)

MaxData == 2         \* rows of a dataset handed to mapping / log_prob
MaxMinibatch == 2    \* weight samples per call / per iteration
MaxNIter == 2        \* largest n_iter explored
MaxNPrint == 2       \* largest n_print explored
PlotSamples == 2     \* functions drawn by print_progress (10 in the script)
PlotInputs == 2      \* grid points of the plot (400 in the script)

WeightDims == { <<1, 1>>, <<2, 1>>, <<1, 2>> }  \* weight_dim of a model
Hyper == { <<1, 1>>, <<2, 3>> }     \* (lik_variance, prior_variance) of a model
Starts == {-2, 0, 1}                \* first entries of the rows of call inputs
Grads == {-1, 1}                    \* components of a gradient step
InitStds == {1, 2}                  \* initial standard deviations

Unit == 10 * 10      \* denominator of the hundredths

----------------------------------------------------------------------------
(* Sequences and indices *)

\* The interpreter evaluates an operand once, before the operation runs:
\* F applied to the values of its operands.
Eager1(F(_), A) == CHOOSE r \in { F(a) : a \in {A} } : TRUE
Eager2(F(_, _), A, B) == CHOOSE r \in { F(a, b) : a \in {A}, b \in {B} } : TRUE

RECURSIVE SumTo(_, _)
SumTo(s, n) == IF n = 0 THEN 0 ELSE SumTo(s, n - 1) + s[n]

\* sum of the elements of a sequence
SumSeq(s) == Eager1(LAMBDA v : SumTo(v, Len(v)), s \o << >>)

RECURSIVE ProdTo(_, _)
ProdTo(s, n) == IF n = 0 THEN 1 ELSE ProdTo(s, n - 1) * s[n]

\* product of the elements of a sequence
Prod(s) == Eager1(LAMBDA v : ProdTo(v, Len(v)), s \o << >>)

RECURSIVE FlattenTo(_, _)
FlattenTo(ss, n) == IF n = 0 THEN << >> ELSE FlattenTo(ss, n - 1) \o ss[n]

\* concatenation of a sequence of sequences
Flatten(ss) == Eager1(LAMBDA v : FlattenTo(v, Len(v)), ss \o << >>)

Min2(a, b) == IF a < b THEN a ELSE b
Max2(a, b) == IF a > b THEN a ELSE b

\* multi-index (0-based) of the 0-based flat position i in a tensor of shape sh
Unravel(i, sh) ==
    [d \in 1..Len(sh) |-> (i \div Prod(SubSeq(sh, d + 1, Len(sh)))) % sh[d]] \o << >>

\* flat position (0-based) of the multi-index idx
RavelV(idx, sh) ==
    SumSeq([d \in 1..Len(sh) |-> idx[d] * Prod(SubSeq(sh, d + 1, Len(sh)))])

Ravel(idx, sh) == Eager2(RavelV, idx \o << >>, sh)

----------------------------------------------------------------------------------------------------------------------------------------------
(* Tensors *)

InvalidArgument == [shape |-> <<-1>>, data |-> << >>]

IsValid(T) == T # InvalidArgument

\* the tensor of shape sh with the elements d in row-major order
Tensor(sh, d) == [shape |-> sh \o << >>, data |-> d \o << >>]

Rank(T) == Len(T.shape)

\* a Python list of equal rows as a rank-2 tensor
Matrix(rows) == Tensor(<<Len(rows), Len(rows[1])>>, Flatten(rows))

Vector(s) == Tensor(<<Len(s)>>, s)

\* z[:k] of a rank-1 tensor
SliceToV(z, k) ==
    LET e == Min2(k, Len(z.data))
    IN  Tensor(<<e>>, SubSeq(z.data, 1, e))

SliceTo(z, k) == Eager2(SliceToV, z, k)

\* z[k:] of a rank-1 tensor
SliceFromV(z, k) ==
    LET b == Min2(k, Len(z.data))
    IN  Tensor(<<Len(z.data) - b>>, SubSeq(z.data, b + 1, Len(z.data)))

SliceFrom(z, k) == Eager2(SliceFromV, z, k)

\* xs[:, 0] of a rank-2 tensor
Column0V(xs) ==
    LET r == xs.shape[1]  c == xs.shape[2]
    IN  Tensor(<<r>>, [i \in 1..r |-> xs.data[(i - 1) * c + 1]])

Column0(xs) == Eager1(Column0V, xs)

\* xs[:, 1:] of a rank-2 tensor
ColumnsFrom1V(xs) ==
    LET r == xs.shape[1]  c == xs.shape[2]
    IN  Tensor(<<r, c - 1>>,
               [i \in 1..(r * (c - 1)) |->
                   xs.data[((i - 1) \div (c - 1)) * c + ((i - 1) % (c - 1)) + 2]])

ColumnsFrom1(xs) == Eager1(ColumnsFrom1V, xs)

\* tf.reshape
reshapeV(T, sh) ==
    IF ~IsValid(T) \/ Prod(sh) # Len(T.data) THEN InvalidArgument
    ELSE Tensor(sh, T.data)

reshape(T, sh) == Eager2(reshapeV, T, sh)

\* tf.matmul of two rank-2 tensors
matmulV(A, B) ==
    IF ~IsValid(A) \/ ~IsValid(B) THEN InvalidArgument
    ELSE IF Rank(A) # 2 \/ Rank(B) # 2 THEN InvalidArgument
    ELSE IF A.shape[2] # B.shape[1] THEN InvalidArgument
    ELSE LET k == A.shape[1]  m == A.shape[2]  n == B.shape[2]
         IN  Tensor(<<k, n>>,
                 [i \in 1..(k * n) |->
                     LET r == (i - 1) \div n  c == (i - 1) % n
                     IN  SumSeq([j \in 1..m |->
                             A.data[r * m + j] * B.data[(j - 1) * n + c + 1]])])

matmul(A, B) == Eager2(matmulV, A, B)

\* shape sh padded on the left with 1s to length r
PadShape(sh, r) ==
    [d \in 1..r |-> IF d <= r - Len(sh) THEN 1 ELSE sh[d - (r - Len(sh))]]

\* numpy broadcasting: shapes agree from the right, a 1 stretches
BroadcastOk(a, b) ==
    LET r == Max2(Len(a), Len(b))
        pa == PadShape(a, r)  pb == PadShape(b, r)
    IN  \A d \in 1..r : pa[d] = pb[d] \/ pa[d] = 1 \/ pb[d] = 1

BroadcastShape(a, b) ==
    LET r == Max2(Len(a), Len(b))
        pa == PadShape(a, r)  pb == PadShape(b, r)
    IN  [d \in 1..r |-> IF pa[d] = 1 THEN pb[d] ELSE pa[d]]

\* element of T that the element idx of the broadcast result reads
BroadcastGet(T, idx) ==
    LET r == Len(idx)
        own == [d \in 1..Rank(T) |->
                   IF T.shape[d] = 1 THEN 0 ELSE idx[d + (r - Rank(T))]]
    IN  T.data[Ravel(own, T.shape) + 1]

\* elementwise binary operation with broadcasting
Elementwise(Op(_, _), A, B) ==
    IF ~IsValid(A) \/ ~IsValid(B) THEN InvalidArgument
    ELSE IF ~BroadcastOk(A.shape, B.shape) THEN InvalidArgument
    ELSE Eager1(LAMBDA sh :
             Tensor(sh, [i \in 1..Prod(sh) |->
                 Eager1(LAMBDA idx : Op(BroadcastGet(A, idx), BroadcastGet(B, idx)),
                        Unravel(i - 1, sh))]),
             BroadcastShape(A.shape, B.shape) \o << >>)

Plus(a, b) == a + b
Minus(a, b) == a - b
Times(a, b) == a * b

addV(A, B) == Elementwise(Plus, A, B)
subV(A, B) == Elementwise(Minus, A, B)
mulV(A, B) == Elementwise(Times, A, B)

add(A, B) == Eager2(addV, A, B)
sub(A, B) == Eager2(subV, A, B)
mul(A, B) == Eager2(mulV, A, B)

\* tf.pow(T, 2)
pow2V(T) == mulV(T, T)

pow2(T) == Eager1(pow2V, T)

\* tf.squeeze without squeeze_dims: every dimension of size 1 is removed
squeezeV(T) ==
    IF ~IsValid(T) THEN InvalidArgument
    ELSE Tensor(SelectSeq(T.shape, LAMBDA d : d # 1), T.data)

squeeze(T) == Eager1(squeezeV, T)

\* tf.pack of a non-empty list of tensors
packV(ts) ==
    IF \E i \in 1..Len(ts) : ~IsValid(ts[i]) THEN InvalidArgument
    ELSE IF \E i \in 1..Len(ts) : ts[i].shape # ts[1].shape THEN InvalidArgument
    ELSE Tensor(<<Len(ts)>> \o ts[1].shape,
                Flatten([i \in 1..Len(ts) |-> ts[i].data]))

pack(ts) == Eager1(packV, ts \o << >>)

\* tf.unpack along the first dimension
unpackV(T) ==
    LET inner == Tail(T.shape)
        sz    == Prod(inner)
    IN  [i \in 1..T.shape[1] |->
            Tensor(inner, SubSeq(T.data, (i - 1) * sz + 1, i * sz))] \o << >>

unpack(T) == Eager1(unpackV, T)

\* tf.reduce_sum(T, axis), axis 0-based
reduce_sumV(T, axis) ==
    IF ~IsValid(T) THEN InvalidArgument
    ELSE IF axis >= Rank(T) THEN InvalidArgument
    ELSE Eager1(LAMBDA sh :
             Tensor(sh, [i \in 1..Prod(sh) |->
                 Eager1(LAMBDA idx :
                     SumSeq([j \in 1..T.shape[axis + 1] |->
                         T.data[Ravel(SubSeq(idx, 1, axis) \o <<j - 1>>
                                      \o SubSeq(idx, axis + 1, Len(idx)),
                                      T.shape) + 1]]),
                     Unravel(i - 1, sh))]),
             SubSeq(T.shape, 1, axis) \o SubSeq(T.shape, axis + 2, Rank(T)))

reduce_sum(T, axis) == Eager2(reduce_sumV, T, axis)

\* -c * T for a scalar c given in hundredths: the result is in hundredths
NegScaleV(c, T) ==
    IF ~IsValid(T) THEN InvalidArgument
    ELSE Tensor(T.shape, [i \in 1..Len(T.data) |-> (0 - c) * T.data[i]])

NegScale(c, T) == Eager2(NegScaleV, c, T)

\* -T / c for a scalar c given in hundredths: the result is in hundredths
NegDivideV(T, c) ==
    IF ~IsValid(T) THEN InvalidArgument
    ELSE Tensor(T.shape,
                [i \in 1..Len(T.data) |-> ((0 - T.data[i]) * Unit * Unit) \div c])

NegDivide(T, c) == Eager2(NegDivideV, T, c)

----------
(* LinearModel *)

\* num_vars without the n bias entries
NumVars_NoBias(wd) == wd[1] * wd[2]

\* LinearModel.__init__ : self.num_vars
NumVars(wd) == (wd[1] + 1) * wd[2]

\* LinearModel.mapping(x, z) of the model with weight dimensions wd
mapping(wd, x, z) ==
    LET m == wd[1]
        n == wd[2]
        W == reshape(SliceTo(z, m * n), <<m, n>>)
        b == reshape(SliceFrom(z, m * n), <<1, n>>)
        h == add(matmul(x, W), b)
    IN  squeeze(h)

\* LinearModel.log_prob(xs, zs)
log_prob(wd, lik, prior, xs, zs) ==
    LET y == Column0(xs)
        x == ColumnsFrom1(xs)
        log_prior == NegScale(prior, reduce_sum(mul(zs, zs), 1))
        rows == unpack(zs)
        mus == pack([i \in 1..Len(rows) |-> mapping(wd, x, rows[i])])
        log_lik == NegDivide(reduce_sum(pow2(sub(mus, y)), 1), lik)
    IN  add(log_lik, log_prior)

----------------------------------------------------------------------------
(* Random generators and the variational family *)

\* value number pos of the standard-normal stream of a generator seeded seed
StdNormal(seed, pos) == ((seed + pos) % 3) - 1

\* randn(rows, cols) drawn from generator state g = [seed, pos]
Randn(g, rows, cols) ==
    Tensor(<<rows, cols>>,
           [i \in 1..(rows * cols) |-> StdNormal(g.seed, g.pos + i - 1)])

\* generator state after count draws
Advance(g, count) == [seed |-> g.seed, pos |-> g.pos + count]

\* an update step that lets a standard deviation fall through the floor
ClipStd_NoFloor(v) == v

\* an update step keeps every standard deviation strictly positive by clipping
ClipStd(v) == IF v < 1 THEN 1 ELSE v

\* one optimizer step on (mean, std) along the gradient estimate (gm, gs)
StepMean(m, gm) == [k \in 1..Len(m) |-> m[k] + gm]
StepStd(s, gs) == [k \in 1..Len(s) |-> ClipStd(s[k] + gs)]

\* np.mean of a non-empty vector of hundredths, to the hundredth
Mean(v) == SumSeq(v) \div Len(v)

\* np.linspace(lo, hi, num) on the integer grid, num >= 2
Linspace(lo, hi, num) == [i \in 1..num |-> lo + ((i - 1) * (hi - lo)) \div (num - 1)]

----------------------------------------------------------------------------
(* The script: construction, then inference.run(n_iter, n_print) *)

RunData ==
    { Matrix(<< <<0, -1>>, <<1, 1>> >>), Matrix(<< <<1, -1>>, <<-1, 1>> >>) }

Init ==
    /\ weight_dim = <<1, 1>>
    /\ lik_variance = 1
    /\ prior_variance = 1
    /\ num_vars = NumVars(weight_dim)
    /\ var_m = [k \in 1..num_vars |-> 0]
    /\ \E s0 \in InitStds : var_s = [k \in 1..num_vars |-> s0]
    /\ data \in RunData
    /\ rng = [seed |-> 0, pos |-> data.shape[1]]
    /\ n_iter \in 0..MaxNIter
    /\ n_print \in 1..MaxNPrint
    /\ n_minibatch \in 1..MaxMinibatch
    /\ t = 0
    /\ losses = << >>
    /\ stdout = << >>
    /\ plot = << >>
    /\ args = << >>
    /\ ret = << >>
    /\ pc = "test"

\* a loop test that admits one iteration too many
LoopContinue_OffByOne ==
    /\ pc = "test"
    /\ t <= n_iter
    /\ pc' = "update"
    /\ UNCHANGED << model_vars, run_vars, var_m, var_s, data, t, rng, losses,
                    stdout, plot, args, ret >>

\* the loop goes on while fewer than n_iter iterations are complete
LoopContinue ==
    /\ pc = "test"
    /\ t < n_iter
    /\ pc' = "update"
    /\ UNCHANGED << model_vars, run_vars, var_m, var_s, data, t, rng, losses,
                    stdout, plot, args, ret >>

LoopExit ==
    /\ pc = "test"
    /\ ~(t < n_iter)
    /\ pc' = "done"
    /\ UNCHANGED << model_vars, run_vars, var_m, var_s, data, t, rng, losses,
                    stdout, plot, args, ret >>

\* one iteration: sample, evaluate the log joint, step (mean, std), count
Iterate ==
    /\ pc = "update"
    /\ \E eps \in { Randn(rng, n_minibatch, num_vars) } :
       \E zs \in { add(mul(eps, Vector(var_s)), Vector(var_m)) } :
       \E lp \in { log_prob(weight_dim, lik_variance, prior_variance, data, zs) } :
           /\ IsValid(lp)
           /\ losses' = [i \in 1..Len(lp.data) |-> 0 - lp.data[i]]
    /\ \E gm \in Grads, gs \in Grads :
           /\ var_m' = StepMean(var_m, gm)
           /\ var_s' = StepStd(var_s, gs)
    /\ rng' = Advance(rng, n_minibatch * num_vars)
    /\ t' = t + 1
    /\ pc' = "progress"
    /\ UNCHANGED << model_vars, run_vars, data, stdout, plot, args, ret >>

\* a test that reports one iteration early
ShouldPrint_OffByOne(iter, every) == (iter + 1) % every = 0

\* print_progress: the test that decides whether anything is shown
ShouldPrint(iter, every) == iter % every = 0

\* print_progress: weight samples of the variational model, from a generator
\* of its own
PlotWeights(mean, std) ==
    LET rs == [seed |-> 0, pos |-> 0]
    IN  add(mul(Randn(rs, PlotSamples, Len(mean)), Vector(std)), Vector(mean))

\* print_progress: the sampled functions on the grid of the plot
PlotFunctions(wd, inputs, zs) ==
    LET x    == Tensor(<<Len(inputs), 1>>, inputs)
        rows == unpack(zs)
    IN  pack([i \in 1..Len(rows) |-> mapping(wd, x, rows[i])])

\* print_progress drawing its samples from the global generator
PrintProgress_GlobalGenerator ==
    /\ pc = "progress"
    /\ IF ShouldPrint(t, n_print)
       THEN /\ stdout' = Append(stdout, [iter |-> t, loss |-> Mean(losses)])
            /\ \E inputs \in { Linspace(-8, 8, PlotInputs) } :
               \E zs \in { add(mul(Randn(rng, PlotSamples, num_vars), Vector(var_s)),
                               Vector(var_m)) } :
               \E outputs \in { PlotFunctions(weight_dim, inputs, zs) } :
                   plot' = [ y |-> Column0(data).data,
                             x |-> Column0(ColumnsFrom1(data)).data,
                             inputs |-> inputs,
                             outputs |-> outputs ]
            /\ rng' = Advance(rng, PlotSamples * num_vars)
       ELSE UNCHANGED << stdout, plot, rng >>
    /\ pc' = "test"
    /\ UNCHANGED << model_vars, run_vars, var_m, var_s, data, t, losses,
                    args, ret >>

\* print_progress rescaling the dataset in place to fit the axes
PrintProgress_RescalesData ==
    /\ pc = "progress"
    /\ IF ShouldPrint(t, n_print)
       THEN /\ stdout' = Append(stdout, [iter |-> t, loss |-> Mean(losses)])
            /\ \E inputs \in { Linspace(-8, 8, PlotInputs) } :
               \E zs \in { PlotWeights(var_m, var_s) } :
               \E outputs \in { PlotFunctions(weight_dim, inputs, zs) } :
                   plot' = [ y |-> Column0(data).data,
                             x |-> Column0(ColumnsFrom1(data)).data,
                             inputs |-> inputs,
                             outputs |-> outputs ]
            /\ data' = Tensor(data.shape, [i \in 1..Len(data.data) |-> 2 * data.data[i]])
       ELSE UNCHANGED << stdout, plot, data >>
    /\ pc' = "test"
    /\ UNCHANGED << model_vars, run_vars, var_m, var_s, t, rng, losses,
                    args, ret >>

PrintProgress ==
    /\ pc = "progress"
    /\ IF ShouldPrint(t, n_print)
       THEN /\ stdout' = Append(stdout, [iter |-> t, loss |-> Mean(losses)])
            /\ \E inputs \in { Linspace(-8, 8, PlotInputs) } :
               \E zs \in { PlotWeights(var_m, var_s) } :
               \E outputs \in { PlotFunctions(weight_dim, inputs, zs) } :
                   plot' = [ y |-> Column0(data).data,
                             x |-> Column0(ColumnsFrom1(data)).data,
                             inputs |-> inputs,
                             outputs |-> outputs ]
       ELSE UNCHANGED << stdout, plot >>
    /\ pc' = "test"
    /\ UNCHANGED << model_vars, run_vars, var_m, var_s, data, t, rng, losses,
                    args, ret >>

Next == LoopContinue \/ LoopExit \/ Iterate \/ PrintProgress

Spec == Init /\ [][Next]_vars

FairSpec == Spec /\ WF_vars(Next)

----------------------------------------------------------------------------
(* Direct calls of LinearModel.mapping and LinearModel.log_prob *)

\* the rows start, start + 1, ... of length cols
Rows(cols) == { [k \in 1..cols |-> v + k - 1] : v \in Starts }

\* the tensors of shape (rows, cols) made of such rows
Tensors2(rows, cols) == { Matrix(rs) : rs \in [1..rows -> Rows(cols)] }

InitFn ==
    /\ weight_dim \in WeightDims
    /\ \E h \in Hyper : lik_variance = h[1] /\ prior_variance = h[2]
    /\ num_vars = NumVars(weight_dim)
    /\ var_m = [k \in 1..num_vars |-> 0]
    /\ var_s = [k \in 1..num_vars |-> 1]
    /\ \E r \in 1..MaxData : data \in Tensors2(r, weight_dim[1] + 1)
    /\ \E r \in 1..MaxMinibatch : args \in Tensors2(r, num_vars)
    /\ rng = [seed |-> 0, pos |-> data.shape[1]]
    /\ n_iter = 0
    /\ n_print = 1
    /\ n_minibatch = args.shape[1]
    /\ t = 0
    /\ losses = << >>
    /\ stdout = << >>
    /\ plot = << >>
    /\ ret = << >>
    /\ pc = "ready"

\* model.mapping(x, z) on the inputs of the dataset and the first sample
CallMapping ==
    /\ pc = "ready"
    /\ ret' = mapping(weight_dim, ColumnsFrom1(data), unpack(args)[1])
    /\ pc' = "mapping_returned"
    /\ UNCHANGED << model_vars, run_vars, var_m, var_s, data, t, rng, losses,
                    stdout, plot, args >>

\* model.log_prob(xs, zs) on the dataset and the minibatch
CallLogProb ==
    /\ pc = "ready"
    /\ ret' = log_prob(weight_dim, lik_variance, prior_variance, data, args)
    /\ pc' = "log_prob_returned"
    /\ UNCHANGED << model_vars, run_vars, var_m, var_s, data, t, rng, losses,
                    stdout, plot, args >>

NextFn == CallMapping \/ CallLogProb

SpecFn == InitFn /\ [][NextFn]_vars

----------------------------------------------------------------------------
(* Properties *)

C2_Terminates ==
    /\ <>(pc = "done")
    /\ [](pc = "done" => t = n_iter)
    /\ [][pc = "done" => var_m' = var_m /\ var_s' = var_s]_vars

\* a run of at least two iterations has ended
C2_Witness == pc = "done" /\ n_iter >= 2 /\ t = n_iter

\* log_prob as stated for a model with one output: element i is the summed
\* squared residual of sample i over all rows, divided by lik_variance and
\* negated, plus the negated prior_variance times the squared norm of sample i
ClaimedLogProb(i) ==
    LET m  == weight_dim[1]
        nd == data.shape[1]
        z  == SubSeq(args.data, (i - 1) * num_vars + 1, i * num_vars)
        y(j) == data.data[(j - 1) * (m + 1) + 1]
        x(j, d) == data.data[(j - 1) * (m + 1) + 1 + d]
        mu(j) == SumSeq([d \in 1..m |-> x(j, d) * z[d]]) + z[m + 1]
        sq == SumSeq([j \in 1..nd |-> (mu(j) - y(j)) * (mu(j) - y(j))])
        zz == SumSeq([k \in 1..num_vars |-> z[k] * z[k]])
    IN  (0 - ((sq * Unit * Unit) \div lik_variance)) + (0 - prior_variance * zz)

\* C3: element i of log_prob(xs, zs) is the unnormalized log likelihood over
\* all data points plus the unnormalized log prior of sample i (stated for
\* models with one output, the only ones whose prediction is a scalar per row).
C3_LogProbValue ==
    (pc = "log_prob_returned" /\ weight_dim[2] = 1) =>
        /\ IsValid(ret)
        /\ Len(ret.data) = n_minibatch
        /\ \A i \in 1..n_minibatch : ret.data[i] = ClaimedLogProb(i)

\* C4: log_prob(xs, zs) returns a one-dimensional vector of length exactly
\* n_minibatch, for every n_minibatch >= 1 and n_data >= 1 (one-output models).
C4_LogProbShape ==
    (pc = "log_prob_returned" /\ weight_dim[2] = 1) =>
        ret.shape = <<n_minibatch>>

\* x.W + b, row-major, computed entry by entry from the first sample
ClaimedMapping ==
    LET m == weight_dim[1]
        n == weight_dim[2]
        k == data.shape[1]
        z == SubSeq(args.data, 1, num_vars)
        x(j, d) == data.data[(j - 1) * (m + 1) + 1 + d]
    IN  [i \in 1..(k * n) |->
            LET j == ((i - 1) \div n) + 1
                c == ((i - 1) % n) + 1
            IN  SumSeq([d \in 1..m |-> x(j, d) * z[(d - 1) * n + c]])
                + z[m * n + c]]

\* C5: for x of shape (k, m), k >= 1, mapping(x, z) is x.W + b with shape (k,)
\* when n = 1 and shape (k, n) otherwise.
C5_MappingShape ==
    pc = "mapping_returned" =>
        /\ ret.shape = IF weight_dim[2] = 1 THEN <<data.shape[1]>>
                       ELSE <<data.shape[1], weight_dim[2]>>
        /\ ret.data = ClaimedMapping

\* C6: num_vars is (m + 1) * n; it is the length of the weight vector that
\* mapping splits into W (m * n entries) and b (n entries), and the
\* dimensionality of the variational family.
C6_NumVars ==
    LET m == weight_dim[1]
        n == weight_dim[2]
        z == unpack(args)[1]
    IN  /\ num_vars = m * n + n
        /\ Len(var_m) = num_vars
        /\ Len(var_s) = num_vars
        /\ Len(z.data) = num_vars
        /\ SliceTo(z, m * n).shape = <<m * n>>
        /\ SliceFrom(z, m * n).shape = <<n>>

\* mapping has split a weight vector of a two-output model
C6_Witness ==
    pc = "mapping_returned" /\ weight_dim = <<1, 2>> /\ ret.shape = <<2, 2>>

\* iterations whose progress line is on the output
Shown == { stdout[i].iter : i \in 1..Len(stdout) }

\* iterations whose call of print_progress has returned
Reported == IF pc = "progress" THEN 1..(t - 1) ELSE 1..t

\* C8: the progress line and the redraw are produced at iteration t if and
\* only if t is a multiple of n_print.
C8_ProgressEveryNPrint ==
    /\ Shown = { i \in Reported : i % n_print = 0 }
    /\ Len(stdout) = Cardinality(Shown)
    /\ (plot # << >>) <=> (Shown # {})

\* iteration 1 was passed over in silence and iteration 2 reported
C8_Witness == n_print = 2 /\ t = 2 /\ pc = "test" /\ Shown = {2}

C10_ProgressIsSideEffectOnly ==
    [][pc = "progress" => UNCHANGED << var_m, var_s, data, t, rng >>]_vars

\* print_progress has just drawn the first picture
C10_Witness == pc = "test" /\ t = 1 /\ Len(stdout) = 1 /\ plot # << >>

====
